---- MODULE Spec2Model ----
(***************************************************************************)
(* Model of page_explorer.PageExplorer (src/src/page_explorer/             *)
(* page_explorer.py): the engine that drives a running browser through a   *)
(* sequence of instructions over a WebDriver session.                      *)
(*                                                                         *)
(* The engine is single threaded.  One caller constructs the engine in a   *)
(* `with` statement, calls its public operations, leaves the scope and may *)
(* keep calling operations afterwards.  Every command sent to the session  *)
(* is one step of the model and may complete or raise; the commands and    *)
(* the calls of the wait primitive made by the operation in progress are   *)
(* recorded, in order, in `trace`.                                         *)
(***************************************************************************)
EXTENDS Integers, Sequences, FiniteSets, TLC

\* ------------------------------------------------------------------------
\* Bounds of the model
\* ------------------------------------------------------------------------
\* longest instruction sequence handed to explore
MaxLen == 3
\* explicit shutdown() calls of the caller
MaxShutdowns == 2
\* largest wait budget handed to close_browser
MaxWait == 2

\* instruction fields the caller draws from
Delays == {0, 1}
Runs == {1, 2}
WaitValues == {2, 3}
\* polling intervals handed to close_browser
Polls == {1, 2}
\* element handles of the page, numbered in document order
PageElements == {1, 2}
\* page titles the session can report
Titles == {"foo", "Server Not Found"}

\* ------------------------------------------------------------------------
\* Exceptions
\* ------------------------------------------------------------------------
HTTPError == "HTTPError"
WebDriverException == "WebDriverException"
ElementNotInteractableException == "ElementNotInteractableException"
StaleElementReferenceException == "StaleElementReferenceException"
ExplorerError == "ExplorerError"
AttributeError == "AttributeError"

\* the two element exceptions are subclasses of WebDriverException
ElementLocal == {ElementNotInteractableException, StaleElementReferenceException}

\* isinstance(e, c) for the exception classes above
IsInstance(e, c) == e = c \/ (e \in ElementLocal /\ c = WebDriverException)

\* an except clause (or suppress) naming the classes cs handles e
IsCaught(e, cs) == \E c \in cs : IsInstance(e, c)

\* failures of the control channel: transport (urllib3) and protocol (selenium)
SessionFatal == {HTTPError, WebDriverException}

\* ------------------------------------------------------------------------
\* Instructions
\* ------------------------------------------------------------------------
Actions ==
    {"CLEAR_ELEMENTS", "EXECUTE_SCRIPT", "FIND_ELEMENTS", "KEY_DOWN", "KEY_UP",
     "SEND_KEYS", "WAIT"}

\* Instruction(action, delay=0, runs=1, value=None); value is kept only for
\* WAIT, where it is the duration (0 stands for a payload the engine passes on)
Instruction(a, d, r, v) == [action |-> a, delay |-> d, runs |-> r, value |-> v]

Instructions ==
    {Instruction(a, 0, 1, 0) : a \in Actions \ {"SEND_KEYS", "WAIT"}}
        \cup {Instruction("SEND_KEYS", d, r, 0) : d \in Delays, r \in Runs}
        \cup {Instruction("WAIT", 0, 1, v) : v \in WaitValues}

InstructionSeqs == UNION {[1..n -> Instructions] : n \in 0..MaxLen}

\* what a lookup can return: the elements of the page that match, in
\* document order
ElementLists ==
    {l \in UNION {[1..n -> PageElements] : n \in 0..Cardinality(PageElements)} :
        \A i, j \in 1..Len(l) : i < j => l[i] < l[j]}

\* the local `elements` of explore: None, or a list of elements
NoSelection == [some |-> FALSE, list |-> <<>>]
Selection(l) == [some |-> TRUE, list |-> l]

\* ------------------------------------------------------------------------
\* State
\* ------------------------------------------------------------------------
VARIABLES
    driver,            \* the _driver slot: "unset" or "attached"
    attach,            \* outcome of the attach step of __init__ ("none" before)
    scope,             \* where the caller's with statement stands
    quitCalls,         \* quit() requests made to the session
    shutdownCalls,     \* invocations of shutdown(), explicit or from __exit__
    explicitShutdowns, \* shutdown() calls made by the caller itself
    used,              \* the caller has called an operation other than shutdown
    pc,                \* position inside the operation in progress
    op,                \* the operation in progress
    instructions,      \* explore: the argument
    idx,               \* explore: index of the instruction being executed
    success,           \* explore, get: the local `success`
    elements,          \* explore: the local `elements`
    k,                 \* explore: elements sent to / runs made, of this SEND_KEYS
    wait,              \* close_browser: the argument `wait`
    poll,              \* close_browser: the argument `poll`
    deadline,          \* close_browser: the local `deadline`
    now,               \* perf_counter(), counted from the call of close_browser
    trace,             \* commands and waits of the operation in progress
    ret                \* how the operation ended, once pc = "done"

frame == <<instructions, idx, success, elements, k, wait, poll, deadline, now>>
life == <<driver, attach, scope, quitCalls, shutdownCalls, explicitShutdowns, used>>
vars == <<driver, attach, scope, quitCalls, shutdownCalls, explicitShutdowns,
          used, pc, op, instructions, idx, success, elements, k, wait, poll,
          deadline, now, trace, ret>>

\* one entry of trace: a command sent to the session (or a call of wait_cb),
\* the instruction index it was made at (-1 outside explore), its argument
\* (element handle or duration), how it ended, and what it returned
Event(e, at, arg, out, res, val) ==
    [ev |-> e, at |-> at, arg |-> arg, out |-> out, res |-> res, val |-> val]
Cmd(e, out) == Event(e, -1, 0, out, <<>>, "")

Returned(v) == [raised |-> "none", value |-> v]
Raised(e) == [raised |-> e, value |-> "None"]
NoRet == [raised |-> "none", value |-> "unset"]

\* ------------------------------------------------------------------------
\* The session
\* ------------------------------------------------------------------------
\* How a command on self._driver can end.  Reading an unset slot raises
\* AttributeError; once quit() was requested the session is gone and every
\* command fails; otherwise the command completes or the channel fails.
Outcomes ==
    IF driver = "unset" THEN {AttributeError}
    ELSE IF quitCalls > 0 THEN SessionFatal
    ELSE {"ok"} \cup SessionFatal

\* element.send_keys can also fail for the element alone
ElementOutcomes == Outcomes \cup (IF "ok" \in Outcomes THEN ElementLocal ELSE {})

\* quit() itself may complete or fail, whatever was done before
QuitOutcomes ==
    IF driver = "unset" THEN {AttributeError} ELSE {"ok"} \cup SessionFatal

\* ------------------------------------------------------------------------
\* Construction and the with statement
\* ------------------------------------------------------------------------
Init ==
    /\ driver = "unset"
    /\ attach = "none"
    /\ scope = "pre"
    /\ quitCalls = 0
    /\ shutdownCalls = 0
    /\ explicitShutdowns = 0
    /\ used = FALSE
    /\ pc = "idle"
    /\ op = "none"
    /\ instructions = <<>>
    /\ idx = -1
    /\ success = FALSE
    /\ elements = NoSelection
    /\ k = 0
    /\ wait = 0
    /\ poll = 0
    /\ deadline = 0
    /\ now = 0
    /\ trace = <<>>
    /\ ret = NoRet

\* mutation: the HTTPError of the attach step is logged and not raised again
InitRaisesSwallowHttp(out) ==
    IF out = "ok" \/ IsInstance(out, HTTPError) THEN "none"
    ELSE IF IsInstance(out, WebDriverException) THEN ExplorerError
    ELSE out

\* mutation: the WebDriverException of the attach step reaches the caller
InitRaisesLeakProtocol(out) ==
    IF out = "ok" THEN "none"
    ELSE IF IsInstance(out, HTTPError) THEN ExplorerError
    ELSE out

\* the except clauses of __init__: what the constructor raises when the
\* attach step ended with out
InitRaises(out) ==
    IF out = "ok" THEN "none"
    ELSE IF IsInstance(out, HTTPError) THEN ExplorerError
    ELSE IF IsInstance(out, WebDriverException) THEN ExplorerError
    ELSE out

\* PageExplorer(binary, port), as the context expression of a with statement
Construct ==
    /\ pc = "idle"
    /\ scope = "pre"
    /\ \E out \in {"ok"} \cup SessionFatal :
        /\ attach' = out
        /\ trace' = <<Cmd("FirefoxDriver", out)>>
        /\ driver' = IF out = "ok" THEN "attached" ELSE "unset"
        /\ ret' = IF InitRaises(out) = "none" THEN Returned("None")
                  ELSE Raised(InitRaises(out))
        /\ scope' = IF InitRaises(out) = "none" THEN "constructed" ELSE "failed"
    /\ op' = "__init__"
    /\ pc' = "done"
    /\ UNCHANGED <<quitCalls, shutdownCalls, explicitShutdowns, used, frame>>

\* __enter__: the with statement binds the engine and runs its body
Enter ==
    /\ pc = "idle"
    /\ scope = "constructed"
    /\ scope' = "body"
    /\ UNCHANGED <<driver, attach, quitCalls, shutdownCalls, explicitShutdowns,
                   used, pc, op, frame, trace, ret>>

\* the body of the with statement raises an error of its own
BodyRaise ==
    /\ pc = "idle"
    /\ scope = "body"
    /\ scope' = "unwinding"
    /\ UNCHANGED <<driver, attach, quitCalls, shutdownCalls, explicitShutdowns,
                   used, pc, op, frame, trace, ret>>

ShutdownSuppress == {HTTPError, WebDriverException}

\* shutdown(): with suppress(...): self._driver.quit()
ShutdownBody ==
    \E out \in QuitOutcomes :
        /\ trace' = <<Cmd("quit", out)>>
        /\ quitCalls' = IF driver = "attached" THEN quitCalls + 1 ELSE quitCalls
        /\ shutdownCalls' = shutdownCalls + 1
        /\ ret' = IF out = "ok" \/ IsCaught(out, ShutdownSuppress)
                  THEN Returned("None") ELSE Raised(out)
        /\ pc' = "done"

\* mutation: __exit__ returns without calling shutdown
ExitWithoutShutdown ==
    /\ pc = "idle"
    /\ scope \in {"body", "unwinding"}
    /\ trace' = <<>>
    /\ ret' = Returned("None")
    /\ pc' = "done"
    /\ op' = "__exit__"
    /\ scope' = IF scope = "body" THEN "exited" ELSE "exited_raising"
    /\ UNCHANGED <<driver, attach, quitCalls, shutdownCalls, explicitShutdowns,
                   used, frame>>

\* __exit__: runs when the body ends, normally or by an error
Exit ==
    /\ pc = "idle"
    /\ scope \in {"body", "unwinding"}
    /\ ShutdownBody
    /\ op' = "__exit__"
    /\ scope' = IF scope = "body" THEN "exited" ELSE "exited_raising"
    /\ UNCHANGED <<driver, attach, explicitShutdowns, used, frame>>

\* the caller may use the engine while the body runs and after the scope
CallerMayCall == pc = "idle" /\ scope \in {"body", "exited", "exited_raising"}

Shutdown ==
    /\ CallerMayCall
    /\ explicitShutdowns < MaxShutdowns
    /\ ShutdownBody
    /\ op' = "shutdown"
    /\ explicitShutdowns' = explicitShutdowns + 1
    /\ UNCHANGED <<driver, attach, scope, used, frame>>

Bool(b) == IF b THEN "True" ELSE "False"

\* ------------------------------------------------------------------------
\* explore(instructions, wait_cb)
\* ------------------------------------------------------------------------
\* mutation: the except clause for HTTPError is missing
ExploreHandlersNoHttp == {WebDriverException}

ExploreHandlers == {HTTPError, WebDriverException}
\* mutation: the suppress names one of the two element errors only
ElementSuppressNoStale == {ElementNotInteractableException}

ElementSuppress == {ElementNotInteractableException, StaleElementReferenceException}

\* the for loop over instructions: is there a next one, and which
HasNext == idx + 1 < Len(instructions)
NextInstruction == instructions[idx + 2]
Dispatch(a) == pc = "loop" /\ HasNext /\ NextInstruction.action = a

\* mutation: the error is handled inside the loop, which goes on
ExploreJumpResume(out) == "loop"

\* the try statement around the loop: where control goes after a command of
\* the loop body ended with out
ExploreJump(out) == IF out = "ok" THEN "loop" ELSE "finally"

\* mutation: a try/finally without except clauses
ExplorePendingUncaught(out) == IF out = "ok" THEN NoRet ELSE Raised(out)

\* the except clauses of that try statement: the error still pending when
\* the finally clause runs
ExplorePending(out) ==
    IF out = "ok" \/ IsCaught(out, ExploreHandlers) THEN NoRet ELSE Raised(out)

\* mutation: the wait is a fixed suspension, whatever duration is asked
WaitEventFixed(at, d) == Event("wait_cb", at, 1, "ok", <<>>, "")

\* wait_cb(d), called at instruction `at`
WaitEvent(at, d) == Event("wait_cb", at, d, "ok", <<>>, "")

\* explore is called: the locals are set and ActionChains(self._driver) is built
ExploreCall ==
    /\ CallerMayCall
    /\ \E ins \in InstructionSeqs : instructions' = ins
    /\ idx' = -1
    /\ success' = FALSE
    /\ elements' = NoSelection
    /\ op' = "explore"
    /\ trace' = <<>>
    /\ used' = TRUE
    /\ pc' = IF driver = "unset" THEN "finally" ELSE "loop"
    /\ ret' = IF driver = "unset" THEN Raised(AttributeError) ELSE NoRet
    /\ UNCHANGED <<driver, attach, scope, quitCalls, shutdownCalls,
                   explicitShutdowns, k, wait, poll, deadline, now>>

\* mutation: CLEAR_ELEMENTS leaves the selection as it is
ClearElementsKeeps ==
    /\ Dispatch("CLEAR_ELEMENTS")
    /\ idx' = idx + 1
    /\ UNCHANGED <<life, pc, op, instructions, success, elements, k, wait, poll,
                   deadline, now, trace, ret>>

ClearElements ==
    /\ Dispatch("CLEAR_ELEMENTS")
    /\ idx' = idx + 1
    /\ elements' = NoSelection
    /\ UNCHANGED <<life, pc, op, instructions, success, k, wait, poll, deadline,
                   now, trace, ret>>

\* an instruction that is one command: execute_script, key_down, key_up
OneCommand(a, name) ==
    /\ Dispatch(a)
    /\ idx' = idx + 1
    /\ \E out \in Outcomes :
        /\ trace' = Append(trace, Event(name, idx + 1, 0, out, <<>>, ""))
        /\ pc' = ExploreJump(out)
        /\ ret' = ExplorePending(out)
    /\ UNCHANGED <<life, op, instructions, success, elements, k, wait, poll,
                   deadline, now>>

ExecuteScript == OneCommand("EXECUTE_SCRIPT", "execute_script")
KeyDown == OneCommand("KEY_DOWN", "key_down")
KeyUp == OneCommand("KEY_UP", "key_up")

\* mutation: the result of the lookup is added to the selection
FindElementsMerge ==
    /\ Dispatch("FIND_ELEMENTS")
    /\ idx' = idx + 1
    /\ \E out \in Outcomes :
        /\ \E l \in (IF out = "ok" THEN ElementLists ELSE {<<>>}) :
            /\ trace' = Append(trace, Event("find_elements", idx + 1, 0, out, l, ""))
            /\ elements' = IF out = "ok" THEN Selection(elements.list \o l)
                           ELSE elements
        /\ pc' = ExploreJump(out)
        /\ ret' = ExplorePending(out)
    /\ UNCHANGED <<life, op, instructions, success, k, wait, poll, deadline, now>>

\* FIND_ELEMENTS: `elements = self._driver.find_elements(...)`
FindElements ==
    /\ Dispatch("FIND_ELEMENTS")
    /\ idx' = idx + 1
    /\ \E out \in Outcomes :
        /\ \E l \in (IF out = "ok" THEN ElementLists ELSE {<<>>}) :
            /\ trace' = Append(trace, Event("find_elements", idx + 1, 0, out, l, ""))
            /\ elements' = IF out = "ok" THEN Selection(l) ELSE elements
        /\ pc' = ExploreJump(out)
        /\ ret' = ExplorePending(out)
    /\ UNCHANGED <<life, op, instructions, success, k, wait, poll, deadline, now>>

\* mutation: `if elements` picks the loop, so an empty list counts as None
SendKeysTruthy ==
    /\ Dispatch("SEND_KEYS")
    /\ idx' = idx + 1
    /\ k' = 0
    /\ pc' = IF elements.some /\ Len(elements.list) > 0
             THEN "send_elements" ELSE "send_page"
    /\ UNCHANGED <<life, op, instructions, success, elements, wait, poll,
                   deadline, now, trace, ret>>

\* SEND_KEYS: `if elements is not None` picks the loop
SendKeys ==
    /\ Dispatch("SEND_KEYS")
    /\ idx' = idx + 1
    /\ k' = 0
    /\ pc' = IF elements.some THEN "send_elements" ELSE "send_page"
    /\ UNCHANGED <<life, op, instructions, success, elements, wait, poll,
                   deadline, now, trace, ret>>

\* mutation: the delay is made only after a send that worked
SendKeysElementDelayOnSuccess ==
    /\ pc = "send_elements"
    /\ IF k < Len(elements.list)
       THEN \E out \in ElementOutcomes :
            LET absorbed == out = "ok" \/ IsCaught(out, ElementSuppress)
                sent == Event("element.send_keys", idx, elements.list[k + 1], out, <<>>, "")
                delay == instructions[idx + 1].delay
            IN  /\ trace' = IF out = "ok" /\ delay > 0
                            THEN trace \o <<sent, WaitEvent(idx, delay)>>
                            ELSE Append(trace, sent)
                /\ k' = k + 1
                /\ pc' = IF absorbed THEN "send_elements" ELSE ExploreJump(out)
                /\ ret' = IF absorbed THEN ret ELSE ExplorePending(out)
       ELSE /\ pc' = "loop"
            /\ UNCHANGED <<k, trace, ret>>
    /\ UNCHANGED <<life, op, instructions, idx, success, elements, wait, poll,
                   deadline, now>>

\* one iteration of `for element in elements`; at the end of the list the
\* instruction is complete
SendKeysElement ==
    /\ pc = "send_elements"
    /\ IF k < Len(elements.list)
       THEN \E out \in ElementOutcomes :
            LET absorbed == out = "ok" \/ IsCaught(out, ElementSuppress)
                sent == Event("element.send_keys", idx, elements.list[k + 1],
                              out, <<>>, "")
                delay == instructions[idx + 1].delay
            IN  /\ trace' = IF absorbed /\ delay > 0
                            THEN trace \o <<sent, WaitEvent(idx, delay)>>
                            ELSE Append(trace, sent)
                /\ k' = k + 1
                /\ pc' = IF absorbed THEN "send_elements" ELSE ExploreJump(out)
                /\ ret' = IF absorbed THEN ret ELSE ExplorePending(out)
       ELSE /\ pc' = "loop"
            /\ UNCHANGED <<k, trace, ret>>
    /\ UNCHANGED <<life, op, instructions, idx, success, elements, wait, poll,
                   deadline, now>>

\* mutation: the delay is made between repetitions, not after the last one
SendKeysPageDelayBetween ==
    /\ pc = "send_page"
    /\ IF k < instructions[idx + 1].runs
       THEN \E out \in Outcomes :
            LET sent == Event("actions.send_keys", idx, 0, out, <<>>, "")
                delay == instructions[idx + 1].delay
            IN  /\ trace' = IF out = "ok" /\ delay > 0
                                /\ k + 1 < instructions[idx + 1].runs
                            THEN trace \o <<sent, WaitEvent(idx, delay)>>
                            ELSE Append(trace, sent)
                /\ k' = k + 1
                /\ pc' = IF out = "ok" THEN "send_page" ELSE ExploreJump(out)
                /\ ret' = ExplorePending(out)
       ELSE /\ pc' = "loop"
            /\ UNCHANGED <<k, trace, ret>>
    /\ UNCHANGED <<life, op, instructions, idx, success, elements, wait, poll,
                   deadline, now>>

\* one iteration of `for _ in range(instruction.runs)`
SendKeysPage ==
    /\ pc = "send_page"
    /\ IF k < instructions[idx + 1].runs
       THEN \E out \in Outcomes :
            LET sent == Event("actions.send_keys", idx, 0, out, <<>>, "")
                delay == instructions[idx + 1].delay
            IN  /\ trace' = IF out = "ok" /\ delay > 0
                            THEN trace \o <<sent, WaitEvent(idx, delay)>>
                            ELSE Append(trace, sent)
                /\ k' = k + 1
                /\ pc' = IF out = "ok" THEN "send_page" ELSE ExploreJump(out)
                /\ ret' = ExplorePending(out)
       ELSE /\ pc' = "loop"
            /\ UNCHANGED <<k, trace, ret>>
    /\ UNCHANGED <<life, op, instructions, idx, success, elements, wait, poll,
                   deadline, now>>

Wait ==
    /\ Dispatch("WAIT")
    /\ idx' = idx + 1
    /\ trace' = Append(trace, WaitEvent(idx + 1, NextInstruction.value))
    /\ UNCHANGED <<life, pc, op, instructions, success, elements, k, wait, poll,
                   deadline, now, ret>>

\* the loop ran to its end: success = True
ExploreComplete ==
    /\ pc = "loop"
    /\ ~HasNext
    /\ success' = TRUE
    /\ pc' = "finally"
    /\ UNCHANGED <<life, op, instructions, idx, elements, k, wait, poll,
                   deadline, now, trace, ret>>

\* the count the finally clause logs: "%d/%d instructions" % (idx + 1, len)
CompletedCount == idx + 1

\* the finally clause logs idx + 1, then `return success` (or the pending
\* error leaves explore)
ExploreFinally ==
    /\ pc = "finally"
    /\ ret' = IF ret.raised # "none" THEN ret ELSE Returned(Bool(success))
    /\ pc' = "done"
    /\ UNCHANGED <<life, op, frame, trace>>

\* ------------------------------------------------------------------------
\* get(url)
\* ------------------------------------------------------------------------
GetHandlers == {HTTPError, WebDriverException}

\* the except clauses of get: the error that leaves get, if any
GetPending(out) ==
    IF out = "ok" \/ IsCaught(out, GetHandlers) THEN NoRet ELSE Raised(out)

\* mutation: the title is compared with another text
TitleIsPageOtherText(t) == t # "Page Not Found"

\* success = self._driver.title != "Server Not Found"
TitleIsPage(t) == t # "Server Not Found"

\* get is called and sends the navigation command
Get ==
    /\ CallerMayCall
    /\ op' = "get"
    /\ used' = TRUE
    /\ success' = FALSE
    /\ \E out \in Outcomes :
        /\ trace' = <<Cmd("get", out)>>
        /\ pc' = IF out = "ok" THEN "get_title" ELSE "get_return"
        /\ ret' = GetPending(out)
    /\ UNCHANGED <<driver, attach, scope, quitCalls, shutdownCalls,
                   explicitShutdowns, instructions, idx, elements, k, wait, poll,
                   deadline, now>>

\* the title is read and compared
GetTitle ==
    /\ pc = "get_title"
    /\ \E out \in Outcomes :
        /\ \E t \in (IF out = "ok" THEN Titles ELSE {""}) :
            /\ trace' = Append(trace, Event("title", -1, 0, out, <<>>, t))
            /\ success' = IF out = "ok" THEN TitleIsPage(t) ELSE success
        /\ pc' = IF out = "ok" THEN "get_log_title" ELSE "get_return"
        /\ ret' = GetPending(out)
    /\ UNCHANGED <<life, op, instructions, idx, elements, k, wait, poll,
                   deadline, now>>

\* LOG.debug reads the title again ...
GetLogTitle ==
    /\ pc = "get_log_title"
    /\ \E out \in Outcomes :
        /\ \E t \in (IF out = "ok" THEN Titles ELSE {""}) :
            trace' = Append(trace, Event("title", -1, 0, out, <<>>, t))
        /\ pc' = IF out = "ok" THEN "get_log_url" ELSE "get_return"
        /\ ret' = GetPending(out)
    /\ UNCHANGED <<life, op, frame>>

\* ... and the current URL
GetLogUrl ==
    /\ pc = "get_log_url"
    /\ \E out \in Outcomes :
        /\ trace' = Append(trace, Cmd("current_url", out))
        /\ ret' = GetPending(out)
    /\ pc' = "get_return"
    /\ UNCHANGED <<life, op, frame>>

\* return success
GetReturn ==
    /\ pc = "get_return"
    /\ ret' = IF ret.raised # "none" THEN ret ELSE Returned(Bool(success))
    /\ pc' = "done"
    /\ UNCHANGED <<life, op, frame, trace>>

\* ------------------------------------------------------------------------
\* is_connected(), current_url
\* ------------------------------------------------------------------------
ConnectedSuppress == {HTTPError, WebDriverException}
UrlSuppress == {HTTPError, WebDriverException}

\* mutation: a failed read of the title still reports a connection
IsConnectedResultAlwaysTrue(out) ==
    IF out = "ok" \/ IsCaught(out, ConnectedSuppress) THEN Returned("True")
    ELSE Raised(out)

\* is_connected, given how the read of the title ended
IsConnectedResult(out) ==
    IF out = "ok" THEN Returned("True")
    ELSE IF IsCaught(out, ConnectedSuppress) THEN Returned("False")
    ELSE Raised(out)

IsConnected ==
    /\ CallerMayCall
    /\ op' = "is_connected"
    /\ used' = TRUE
    /\ \E out \in Outcomes :
        /\ trace' = <<Cmd("title", out)>>
        /\ ret' = IsConnectedResult(out)
    /\ pc' = "done"
    /\ UNCHANGED <<driver, attach, scope, quitCalls, shutdownCalls,
                   explicitShutdowns, frame>>

CurrentUrl ==
    /\ CallerMayCall
    /\ op' = "current_url"
    /\ used' = TRUE
    /\ \E out \in Outcomes :
        /\ trace' = <<Cmd("current_url", out)>>
        /\ ret' = IF out = "ok" THEN Returned("str")
                  ELSE IF IsCaught(out, UrlSuppress) THEN Returned("None")
                  ELSE Raised(out)
    /\ pc' = "done"
    /\ UNCHANGED <<driver, attach, scope, quitCalls, shutdownCalls,
                   explicitShutdowns, frame>>

\* ------------------------------------------------------------------------
\* close_browser(wait, poll)
\* ------------------------------------------------------------------------
CloseHandlers == {HTTPError, WebDriverException}

\* time a probe of the session may take, in clock units
ProbeTimes == {0, 1}

\* close_browser is called with wait >= 0 and sends window.close()
CloseBrowser ==
    /\ CallerMayCall
    /\ op' = "close_browser"
    /\ used' = TRUE
    /\ \E w \in 0..MaxWait, p \in Polls :
        /\ wait' = w
        /\ poll' = p
        /\ deadline' = now + w
    /\ \E out \in Outcomes :
        /\ trace' = <<Cmd("execute_script", out)>>
        /\ pc' = IF out = "ok" THEN "close_poll" ELSE "done"
        /\ ret' = IF out = "ok" THEN NoRet
                  ELSE IF IsCaught(out, CloseHandlers) THEN Returned("None")
                  ELSE Raised(out)
    /\ UNCHANGED <<driver, attach, scope, quitCalls, shutdownCalls,
                   explicitShutdowns, instructions, idx, success, elements, k, now>>

\* mutation: the loop also runs when the clock stands at the deadline
BeforeDeadlineInclusive == deadline >= now

\* the loop test: deadline > perf_counter()
BeforeDeadline == deadline > now

\* one test of `while deadline > perf_counter()`, and one pass of its body
ClosePoll ==
    /\ pc = "close_poll"
    /\ IF BeforeDeadline
       THEN \E out \in Outcomes, t \in ProbeTimes :
            LET probe == IsConnectedResult(out)
                connected == probe = Returned("True")
            IN  /\ trace' = IF connected
                            THEN trace \o <<Cmd("title", out),
                                            Event("sleep", -1, poll, "ok", <<>>, "")>>
                            ELSE Append(trace, Cmd("title", out))
                /\ now' = IF connected THEN now + t + poll ELSE now + t
                /\ pc' = IF connected THEN "close_poll" ELSE "done"
                /\ ret' = IF connected THEN ret
                          ELSE IF probe.raised # "none" THEN probe
                          ELSE Returned("None")
       ELSE /\ pc' = "done"
            /\ ret' = Returned("None")
            /\ UNCHANGED <<now, trace>>
    /\ UNCHANGED <<life, op, instructions, idx, success, elements, k, wait, poll,
                   deadline>>

\* the operation returns (or its error reaches the caller): its frame is gone
Return ==
    /\ pc = "done"
    /\ pc' = "idle"
    /\ op' = "none"
    /\ instructions' = <<>>
    /\ idx' = -1
    /\ success' = FALSE
    /\ elements' = NoSelection
    /\ k' = 0
    /\ wait' = 0
    /\ poll' = 0
    /\ deadline' = 0
    /\ now' = 0
    /\ trace' = <<>>
    /\ ret' = NoRet
    /\ UNCHANGED life

Next ==
    \/ Construct
    \/ Enter
    \/ BodyRaise
    \/ Exit
    \/ Shutdown
    \/ ExploreCall
    \/ ClearElements
    \/ ExecuteScript
    \/ KeyDown
    \/ KeyUp
    \/ FindElements
    \/ SendKeys
    \/ SendKeysElement
    \/ SendKeysPage
    \/ Wait
    \/ ExploreComplete
    \/ ExploreFinally
    \/ Get
    \/ GetTitle
    \/ GetLogTitle
    \/ GetLogUrl
    \/ GetReturn
    \/ IsConnected
    \/ CurrentUrl
    \/ CloseBrowser
    \/ ClosePoll
    \/ Return

Spec == Init /\ [][Next]_vars

\* ------------------------------------------------------------------------
\* What the trace of an operation shows
\* ------------------------------------------------------------------------
PublicOps ==
    {"get", "explore", "is_connected", "current_url", "close_browser",
     "shutdown", "__exit__"}

Finished(o) == op = o /\ pc = "done"

\* a command of the trace failed with a transport or protocol error
HasFatal == \E p \in 1..Len(trace) : trace[p].out \in SessionFatal
EndsFatal == Len(trace) > 0 /\ trace[Len(trace)].out \in SessionFatal

\* the events named n made at instruction i, in order
EventsAt(i, n) == SelectSeq(trace, LAMBDA e : e.at = i /\ e.ev = n)
Count(n) == Len(SelectSeq(trace, LAMBDA e : e.ev = n))

\* the list a completed FIND_ELEMENTS at instruction j returned
FoundAt(j) ==
    LET found == SelectSeq(trace, LAMBDA e : e.at = j /\ e.ev = "find_elements"
                                               /\ e.out = "ok")
    IN  IF Len(found) = 0 THEN NoSelection ELSE Selection(found[1].res)

\* the selection instruction i is to work on: that of the last FIND_ELEMENTS
\* before it, unless a CLEAR_ELEMENTS came later
SelectionAt(i) ==
    LET setters == {j \in 0..(i - 1) :
                      instructions[j + 1].action
                          \in {"FIND_ELEMENTS", "CLEAR_ELEMENTS"}}
    IN  IF setters = {} THEN NoSelection
        ELSE LET j == CHOOSE m \in setters : \A n \in setters : n <= m
             IN  IF instructions[j + 1].action = "CLEAR_ELEMENTS"
                 THEN NoSelection ELSE FoundAt(j)

Handles(evs) == [p \in 1..Len(evs) |-> evs[p].arg]

\* instruction i was executed to its end, as the trace shows it
Executed(i) ==
    LET ins == instructions[i + 1]
    IN  CASE ins.action = "CLEAR_ELEMENTS" -> idx >= i
          [] ins.action = "EXECUTE_SCRIPT" -> Len(EventsAt(i, "execute_script")) = 1
          [] ins.action = "FIND_ELEMENTS" -> Len(EventsAt(i, "find_elements")) = 1
          [] ins.action = "KEY_DOWN" -> Len(EventsAt(i, "key_down")) = 1
          [] ins.action = "KEY_UP" -> Len(EventsAt(i, "key_up")) = 1
          [] ins.action = "WAIT" ->
                Handles(EventsAt(i, "wait_cb")) = <<ins.value>>
          [] ins.action = "SEND_KEYS" ->
                IF SelectionAt(i).some
                THEN Handles(EventsAt(i, "element.send_keys")) = SelectionAt(i).list
                ELSE Len(EventsAt(i, "actions.send_keys")) = ins.runs

AllExecuted == \A i \in 0..(Len(instructions) - 1) : Executed(i)

\* ------------------------------------------------------------------------
\* Claims
\* ------------------------------------------------------------------------

\* C1: explore returns True if and only if every instruction of the sequence
\* was executed and no command failed with a transport or protocol error; it
\* returns False exactly when a failed command stopped it before the end.
C1_ExploreResult ==
    Finished("explore") =>
        /\ ret.raised = "none"
        /\ ret.value \in {"True", "False"}
        /\ ret.value = "True" <=> (AllExecuted /\ ~HasFatal)
        /\ ret.value = "False" <=> EndsFatal

\* a three-instruction sequence ran to its end, with a selection and sends
C1_Witness ==
    /\ Finished("explore")
    /\ ret = Returned("True")
    /\ Len(instructions) = MaxLen
    /\ Count("element.send_keys") > 0
    /\ Count("actions.send_keys") > 0

\* C2: after a command made at instruction k failed with a transport or
\* protocol error, explore makes no further command and no further wait, stays
\* at instruction k, and returns False.
C2_AbortOnFatal ==
    (op = "explore" /\ HasFatal) =>
        /\ \A p \in 1..Len(trace) : trace[p].out \in SessionFatal => p = Len(trace)
        /\ pc \in {"finally", "done"}
        /\ idx = trace[Len(trace)].at
        /\ ~success
        /\ pc = "done" => ret = Returned("False")

\* a page-level send failed with runs and instructions left
C2_Witness ==
    /\ Finished("explore")
    /\ EndsFatal
    /\ trace[Len(trace)].ev = "actions.send_keys"
    /\ k < instructions[idx + 1].runs
    /\ idx + 1 < Len(instructions)
    /\ ret = Returned("False")

\* C3: an element-local error of one send of a SEND_KEYS over a selection
\* stops nothing: unless a command fails with a transport or protocol error,
\* every element of the selection is sent to, every instruction is executed
\* and explore returns True.
C3_ElementLocalAbsorbed ==
    (op = "explore" /\ pc \in {"finally", "done"} /\ ~HasFatal) =>
        /\ success
        /\ pc = "done" => ret = Returned("True")
        /\ idx + 1 = Len(instructions)
        /\ \A i \in 0..(Len(instructions) - 1) :
              (instructions[i + 1].action = "SEND_KEYS" /\ SelectionAt(i).some) =>
                  Handles(EventsAt(i, "element.send_keys")) = SelectionAt(i).list

\* the first of two elements failed for itself, the second was sent to, and
\* a later instruction ran
C3_Witness ==
    /\ Finished("explore")
    /\ ret = Returned("True")
    /\ \E p \in 1..Len(trace) :
        /\ trace[p].ev = "element.send_keys"
        /\ trace[p].out \in ElementLocal
        /\ \E q \in (p + 1)..Len(trace) :
              trace[q].ev = "element.send_keys" /\ trace[q].at = trace[p].at
        /\ \E q \in (p + 1)..Len(trace) : trace[q].at > trace[p].at

\* C4: no public operation other than construction raises, and every
\* transport or protocol failure met by one shows as a False / None result.
C4_FailureAsValue ==
    (pc = "done" /\ op \in PublicOps) =>
        /\ ret.raised = "none"
        /\ HasFatal => ret.value \in {"False", "None"}

\* the half of C4 that the code keeps: no operation raises, whatever the session does
NoPublicOperationRaises ==
    (pc = "done" /\ op \in PublicOps) => ret.raised = "none"

\* C5: a transport or protocol failure of any command of get (the navigation,
\* or a later read of the title or of the current URL) makes get return False.
C5_NavigateFailureIsFalse ==
    (Finished("get") /\ HasFatal) => ret = Returned("False")

\* C6: when every command of get completes, get has sent exactly one
\* navigation command and returns True if and only if the title read after it
\* is not "Server Not Found".
C6_NavigateResult ==
    (Finished("get") /\ ~HasFatal) =>
        /\ Count("get") = 1
        /\ trace[1].ev = "get"
        /\ trace[2].ev = "title"
        /\ ret.raised = "none"
        /\ ret.value = "True" <=> trace[2].val # "Server Not Found"
        /\ ret.value = "False" <=> trace[2].val = "Server Not Found"

\* the host was not reachable
C6_Witness ==
    /\ Finished("get")
    /\ ~HasFatal
    /\ Len(trace) = 4
    /\ trace[2].val = "Server Not Found"
    /\ ret = Returned("False")

\* C7: in a with statement whose body does not call shutdown, quit is not
\* requested while the body runs (nor during its last operation), and is
\* requested exactly once when the scope is left, by completion or by an error.
C7_QuitOnceAtScopeExit ==
    explicitShutdowns = 0 =>
        /\ scope \in {"constructed", "body", "unwinding"} => quitCalls = 0
        /\ scope \in {"exited", "exited_raising"} =>
              /\ quitCalls = 1
              /\ shutdownCalls = 1
        /\ Finished("__exit__") => Count("quit") = 1

\* the body ran an operation, raised, and the scope was left
C7_Witness ==
    /\ Finished("__exit__")
    /\ scope = "exited_raising"
    /\ explicitShutdowns = 0
    /\ used
    /\ quitCalls = 1

\* C8 (as stated): once shutdown was called, every later explore returns False.
C8_ExploreAfterShutdownFalse ==
    (Finished("explore") /\ shutdownCalls > 0) => ret = Returned("False")

\* the instruction issues a command to the session when it is executed
\* without a selection
IssuesCommand(ins) == ins.action \notin {"WAIT", "CLEAR_ELEMENTS"}

\* C8 (amended): once shutdown was called, every later explore returns without
\* raising; it returns False if the sequence holds an instruction that issues
\* a command to the session, the first such command failing and nothing being
\* done after it, and True if the sequence holds none.
C8_ExploreAfterShutdown ==
    (Finished("explore") /\ shutdownCalls > 0) =>
        /\ ret.raised = "none"
        /\ ret.value = "False" <=>
              \E i \in 1..Len(instructions) : IssuesCommand(instructions[i])
        /\ ret.value = "True" <=>
              \A i \in 1..Len(instructions) : ~IssuesCommand(instructions[i])
        /\ \A p \in 1..Len(trace) : trace[p].ev # "wait_cb" =>
              (trace[p].out \in SessionFatal /\ p = Len(trace))

\* after the scope was left, a sequence with a command in second place
C8_Witness ==
    /\ Finished("explore")
    /\ shutdownCalls > 0
    /\ Len(instructions) >= 2
    /\ ~IssuesCommand(instructions[1])
    /\ IssuesCommand(instructions[2])
    /\ ret = Returned("False")

\* C9 (as stated): when construction fails in a with statement, shutdown is
\* invoked exactly once in the cleanup, and returns.
C9_ShutdownOnFailedConstruction ==
    (attach \in SessionFatal /\ pc = "idle") => shutdownCalls = 1

\* C9 (amended): when construction fails in a with statement, for either
\* cause, the scope is never entered and shutdown is not invoked: no session
\* was attached and quit is never requested.
C9_NoShutdownOnFailedConstruction ==
    attach \in SessionFatal =>
        /\ scope = "failed"
        /\ driver = "unset"
        /\ shutdownCalls = 0
        /\ quitCalls = 0

\* the failed construction has left the with statement
C9_Witness ==
    /\ attach \in SessionFatal
    /\ scope = "failed"
    /\ pc = "idle"

\* C10: a construction that attaches applies the implicit wait budget to the
\* session exactly once, and succeeds whether or not that command fails.
C10_ImplicitWaitApplied ==
    (Finished("__init__") /\ attach = "ok") =>
        /\ Count("implicitly_wait") = 1
        /\ ret = Returned("None")

\* C11: construction raises ExplorerError, and nothing else, when the attach
\* step fails with HTTPError and when it fails with WebDriverException; when
\* the attach step succeeds construction raises nothing.
C11_ConstructionErrorKind ==
    Finished("__init__") =>
        /\ attach \in {HTTPError, WebDriverException} => ret = Raised(ExplorerError)
        /\ attach = "ok" => ret.raised = "none"
        /\ ret.raised \in {"none", ExplorerError}

\* the protocol-level failure of the attach step
C11_Witness ==
    /\ Finished("__init__")
    /\ attach = WebDriverException
    /\ ret = Raised(ExplorerError)

\* what close_browser has done so far is a close request, then probes of the
\* title, each probe that found a connection followed by one sleep of poll
ClosePollingShape ==
    /\ Len(trace) >= 1
    /\ trace[1].ev = "execute_script"
    /\ trace[1].out # "ok" => (Len(trace) = 1 /\ pc = "done")
    /\ \A p \in 2..Len(trace) :
        /\ trace[p].ev \in {"title", "sleep"}
        /\ (trace[p].ev = "title" /\ trace[p].out = "ok") =>
              /\ p < Len(trace)
              /\ trace[p + 1].ev = "sleep"
              /\ trace[p + 1].arg = poll
        /\ (trace[p].ev = "title" /\ trace[p].out # "ok") =>
              (p = Len(trace) /\ pc = "done")
        /\ trace[p].ev = "sleep" =>
              (trace[p - 1].ev = "title" /\ trace[p - 1].out = "ok")

\* close_browser ended because a probe found no connection
EndsDisconnected ==
    /\ Len(trace) > 1
    /\ trace[Len(trace)].ev = "title"
    /\ trace[Len(trace)].out # "ok"

C13_NoPollingWithoutWait ==
    (op = "close_browser" /\ wait = 0) =>
        /\ Count("title") = 0
        /\ Count("sleep") = 0
        /\ Len(trace) = 1
        /\ now = 0
        /\ pc = "done" => ret = Returned("None")

\* the close request was accepted and close_browser returned at once
C13_Witness ==
    /\ Finished("close_browser")
    /\ wait = 0
    /\ trace[1].out = "ok"

\* everything done at instruction i, in order
EventsOf(i) == SelectSeq(trace, LAMBDA e : e.at = i)

\* instruction i was left without a failed command: a later instruction has
\* begun, or the loop is about to go on, or explore ended without a failure
InstructionComplete(i) ==
    \/ idx > i
    \/ (idx = i /\ pc \in {"loop", "finally", "done"} /\ ~HasFatal)

IsSendKeys(i) ==
    /\ i \in 0..(Len(instructions) - 1)
    /\ instructions[i + 1].action = "SEND_KEYS"

\* C14: for a sequence of WAIT instructions only, whatever the session does,
\* explore returns True, sends no command, and calls wait_cb once per
\* instruction, with the value of that instruction, in the order of the
\* sequence.
C14_WaitOnly ==
    (Finished("explore")
        /\ \A i \in 1..Len(instructions) : instructions[i].action = "WAIT") =>
        /\ ret = Returned("True")
        /\ Len(trace) = Len(instructions)
        /\ \A i \in 1..Len(trace) :
            /\ trace[i].ev = "wait_cb"
            /\ trace[i].at = i - 1
            /\ trace[i].arg = instructions[i].value

\* waits of different durations, on a session that is gone
C14_Witness ==
    /\ Finished("explore")
    /\ quitCalls > 0
    /\ Len(instructions) = MaxLen
    /\ \A i \in 1..Len(instructions) : instructions[i].action = "WAIT"
    /\ instructions[1].value # instructions[2].value
    /\ Len(trace) = MaxLen

\* C15: a SEND_KEYS with runs = N, executed with no selection and with every
\* send completing, makes exactly N page-level sends; with delay > 0 each send
\* is followed by one wait_cb(delay), N in all, and with delay = 0 wait_cb is
\* not called.
C15_PageLevelSends ==
    op = "explore" =>
        \A i \in 0..idx :
            (IsSendKeys(i) /\ ~SelectionAt(i).some /\ InstructionComplete(i)) =>
                LET evs == EventsOf(i)
                    ins == instructions[i + 1]
                IN  /\ Len(EventsAt(i, "actions.send_keys")) = ins.runs
                    /\ Len(EventsAt(i, "element.send_keys")) = 0
                    /\ Len(EventsAt(i, "wait_cb")) =
                          (IF ins.delay > 0 THEN ins.runs ELSE 0)
                    /\ ins.delay > 0 =>
                          \A r \in 1..ins.runs :
                              /\ evs[2 * r - 1].ev = "actions.send_keys"
                              /\ evs[2 * r].ev = "wait_cb"
                              /\ evs[2 * r].arg = ins.delay
                    /\ \A p \in 1..Len(evs) : evs[p].out = "ok"

\* two runs with a delay, completed
C15_Witness ==
    /\ Finished("explore")
    /\ ret = Returned("True")
    /\ \E i \in 0..idx :
        /\ IsSendKeys(i)
        /\ ~SelectionAt(i).some
        /\ instructions[i + 1].runs = 2
        /\ instructions[i + 1].delay > 0
        /\ Len(EventsOf(i)) = 4

\* the selection instruction i works on was reset by a CLEAR_ELEMENTS, with no
\* FIND_ELEMENTS after it
ClearedBefore(i) ==
    \E j \in 0..(i - 1) :
        /\ instructions[j + 1].action = "CLEAR_ELEMENTS"
        /\ \A m \in (j + 1)..(i - 1) : instructions[m + 1].action # "FIND_ELEMENTS"

\* C16: after a CLEAR_ELEMENTS, the next SEND_KEYS of the call (no
\* FIND_ELEMENTS in between) makes no send to an element and, when it is not
\* cut short by a failure, runs page-level sends, also when an earlier
\* FIND_ELEMENTS had returned elements.
C16_ClearResetsSelection ==
    op = "explore" =>
        \A i \in 0..idx :
            (IsSendKeys(i) /\ ClearedBefore(i)) =>
                /\ Len(EventsAt(i, "element.send_keys")) = 0
                /\ Len(EventsAt(i, "actions.send_keys")) <= instructions[i + 1].runs
                /\ InstructionComplete(i) =>
                      Len(EventsAt(i, "actions.send_keys")) = instructions[i + 1].runs
                /\ (idx = i /\ pc \in {"send_elements", "send_page"}) =>
                      pc = "send_page"

\* elements were found, then cleared, then keys were sent to the page
C16_Witness ==
    /\ Finished("explore")
    /\ ret = Returned("True")
    /\ Len(instructions) = 3
    /\ instructions[1].action = "FIND_ELEMENTS"
    /\ Len(trace[1].res) > 0
    /\ instructions[2].action = "CLEAR_ELEMENTS"
    /\ instructions[3].action = "SEND_KEYS"
    /\ Len(EventsAt(2, "actions.send_keys")) = instructions[3].runs

\* C17: a SEND_KEYS that works on the empty list returned by a FIND_ELEMENTS
\* makes no send to an element, no page-level send and no wait, whatever its
\* runs and delay, and explore returns True unless a command fails.
C17_EmptySelection ==
    op = "explore" =>
        /\ \A i \in 0..idx :
              (IsSendKeys(i) /\ SelectionAt(i) = [some |-> TRUE, list |-> <<>>]) =>
                  EventsOf(i) = <<>>
        /\ (pc = "done" /\ ~HasFatal) => ret = Returned("True")

\* the lookup found nothing and a SEND_KEYS with two runs and a delay followed
C17_Witness ==
    /\ Finished("explore")
    /\ ret = Returned("True")
    /\ Len(instructions) >= 2
    /\ instructions[1].action = "FIND_ELEMENTS"
    /\ trace[1].res = <<>>
    /\ instructions[2] = Instruction("SEND_KEYS", 1, 2, 0)

\* C18: the count of completed instructions explore reports at its end is
\* less than the length of the sequence when a transport or protocol error
\* stopped it, at the last instruction too, and is the length of the sequence
\* when explore returns True.
C18_ReportedCount ==
    Finished("explore") =>
        /\ HasFatal => CompletedCount < Len(instructions)
        /\ ret = Returned("True") => CompletedCount = Len(instructions)

\* the FIND_ELEMENTS and CLEAR_ELEMENTS instructions that have completed
CompletedSetters ==
    {j \in 0..idx :
        \/ instructions[j + 1].action = "CLEAR_ELEMENTS"
        \/ /\ instructions[j + 1].action = "FIND_ELEMENTS"
           /\ \E p \in 1..Len(trace) :
                trace[p].at = j /\ trace[p].ev = "find_elements" /\ trace[p].out = "ok"}

\* the selection the completed instructions leave: none after a
\* CLEAR_ELEMENTS or at the start, else the list of the last lookup alone
ExpectedContext ==
    IF CompletedSetters = {} THEN [some |-> FALSE, list |-> <<>>]
    ELSE LET j == CHOOSE m \in CompletedSetters : \A n \in CompletedSetters : n <= m
         IN  IF instructions[j + 1].action = "CLEAR_ELEMENTS"
             THEN [some |-> FALSE, list |-> <<>>]
             ELSE [some |-> TRUE, list |-> EventsAt(j, "find_elements")[1].res]

\* C19: at every point of an explore call the selection is "none" when no
\* FIND_ELEMENTS has completed since the start of the call or since the last
\* CLEAR_ELEMENTS, and otherwise is exactly the list the last completed
\* FIND_ELEMENTS returned; a call starts with no selection.
C19_SelectionContext ==
    op = "explore" =>
        /\ elements = ExpectedContext
        /\ idx = -1 => elements = [some |-> FALSE, list |-> <<>>]

\* an engine that was used before runs two lookups with different results,
\* and the selection is the second list
C19_Witness ==
    /\ op = "explore"
    /\ used
    /\ idx >= 1
    /\ instructions[1].action = "FIND_ELEMENTS"
    /\ instructions[2].action = "FIND_ELEMENTS"
    /\ Len(trace) >= 2
    /\ Len(trace[1].res) > 0
    /\ trace[2].out = "ok"
    /\ trace[2].res # trace[1].res
    /\ elements = [some |-> TRUE, list |-> trace[2].res]

\* C20: a SEND_KEYS that works on a selection of n elements makes one send to
\* each element, in the order of the list, and no page-level send; with
\* delay > 0 it calls wait_cb(delay) after each of the n attempts, also after
\* one that failed for the element alone, and with delay = 0 never; runs
\* plays no part.
C20_ElementSends ==
    op = "explore" =>
        \A i \in 0..idx :
            (IsSendKeys(i) /\ SelectionAt(i).some) =>
                LET evs == EventsOf(i)
                    ins == instructions[i + 1]
                    list == SelectionAt(i).list
                    sends == EventsAt(i, "element.send_keys")
                IN  /\ Len(EventsAt(i, "actions.send_keys")) = 0
                    /\ Len(sends) <= Len(list)
                    /\ \A r \in 1..Len(sends) : sends[r].arg = list[r]
                    /\ InstructionComplete(i) =>
                          /\ Len(sends) = Len(list)
                          /\ Len(EventsAt(i, "wait_cb")) =
                                (IF ins.delay > 0 THEN Len(list) ELSE 0)
                          /\ ins.delay > 0 =>
                                \A r \in 1..Len(list) :
                                    /\ evs[2 * r - 1].ev = "element.send_keys"
                                    /\ evs[2 * r].ev = "wait_cb"
                                    /\ evs[2 * r].arg = ins.delay

\* two elements, two runs asked, a delay, and the first element failing for
\* itself: two sends and two waits
C20_Witness ==
    /\ Finished("explore")
    /\ ret = Returned("True")
    /\ \E i \in 0..idx :
        /\ IsSendKeys(i)
        /\ instructions[i + 1].runs = 2
        /\ instructions[i + 1].delay > 0
        /\ Len(SelectionAt(i).list) = 2
        /\ Len(EventsOf(i)) = 4
        /\ EventsOf(i)[1].out \in ElementLocal
        /\ EventsOf(i)[2].ev = "wait_cb"

====
